---- MODULE Spec2Model ----
(***************************************************************************)
(* Model of the Lexer class of lexr.cpp.                                   *)
(*                                                                         *)
(* A character is the integer value of a `char`; the inputs are drawn from *)
(* the 7-bit values 0..127, for which isdigit and isalpha are defined in   *)
(* the "C" locale the program runs in.  position and readPosition are      *)
(* size_t counters of W bits.  One nextToken() call is the sequence of     *)
(* steps between pc = "idle" and the next pc = "idle"; pc forces the order *)
(* of the steps, so a call can neither skip nor reorder any of them.       *)
(***************************************************************************)
EXTENDS Integers, Sequences, FiniteSets, TLC

\* ---------------------------------------------------------------- bounds
W == 5
MaxLen == 3
ExtraCalls == 12

Modulus == 2 ^ W
MaxCalls == Modulus + ExtraCalls

VARIABLES
    input,          \* Lexer::input, the text being read (never assigned)
    position,       \* Lexer::position
    readPosition,   \* Lexer::readPosition
    ch,             \* Lexer::ch
    pc,             \* where control is: "idle" between calls, else the
                    \* statement of nextToken() about to run
    startPos,       \* the local startPos of readNumber / readIdentifier
    tok,            \* the local tok of nextToken
    callPos,        \* position on entry to the current (or last) call
    skipped,        \* the characters skipWhitespace passed in that call
    tokens,         \* the tokens returned so far, in order
    consumed,       \* skipped whitespace and token texts, concatenated per
                    \* call, of the calls up to the first END_OF_FILE
    consumedCount   \* the number of characters so counted

vars == <<input, position, readPosition, ch, pc, startPos, tok,
          callPos, skipped, tokens, consumed, consumedCount>>

\* ------------------------------------------------------------ characters
NUL == 0
\* a whitespace test that forgets the carriage return
WhitespaceNoCR == {32, 9, 10}

Whitespace == {32, 9, 10, 13}

\* a whitespace test that knows the blank only
IsSpaceBlankOnly(c) == c = 32

IsSpace(c) == c \in Whitespace

\* a digit test written as '0' <= c < '9'
IsDigitShort(c) == c \in 48..56

IsDigit(c) == c \in 48..57

IsAlpha(c) == c \in (65..90) \cup (97..122)

IdentStart(c) == IsAlpha(c) \/ c = 95

\* an identifier loop that forgets the underscore
IdentPartNoUnderscore(c) == IsAlpha(c)

\* an identifier loop that also accepts digits (isalnum)
IdentPartAlnum(c) == IsAlpha(c) \/ c = 95 \/ c \in 48..57

IdentPart(c) == IsAlpha(c) \/ c = 95

\* a switch without the case for '/'
SymbolCharsNoSlash == {61, 43, 45, 42, 40, 41}

\* the case labels of the switch: '=' '+' '-' '*' '/' '(' ')'
SymbolChars == {61, 43, 45, 42, 47, 40, 41}

\* the '+' and '-' cases exchanged
SymbolTypeSwapped(c) ==
    CASE c = 61 -> "EQUALS"
      [] c = 43 -> "MINUS"
      [] c = 45 -> "PLUS"
      [] c = 42 -> "STAR"
      [] c = 47 -> "SLASH"
      [] c = 40 -> "OPEN_PAREN"
      [] c = 41 -> "CLOSE_PAREN"

SymbolType(c) ==
    CASE c = 61 -> "EQUALS"
      [] c = 43 -> "PLUS"
      [] c = 45 -> "MINUS"
      [] c = 42 -> "STAR"
      [] c = 47 -> "SLASH"
      [] c = 40 -> "OPEN_PAREN"
      [] c = 41 -> "CLOSE_PAREN"

TokenType == {"NUMBER", "IDENTIFIER", "EQUALS", "PLUS", "MINUS", "STAR",
              "SLASH", "OPEN_PAREN", "CLOSE_PAREN", "LET", "ILLEGAL",
              "END_OF_FILE"}

Token(t, l) == [type |-> t, literal |-> l]

KeywordLet == <<108, 101, 116>>

\* a keyword test that compares only the first three characters
IsLetPrefix(ident) == Len(ident) >= 3 /\ SubSeq(ident, 1, 3) = KeywordLet

IsLet(ident) == ident = KeywordLet

\* ------------------------------------------------------- library helpers
Min(a, b) == IF a < b THEN a ELSE b

\* std::string::substr(pos, n): throws std::out_of_range when pos > size()
SubstrThrows(s, pos) == pos > Len(s)

\* a substring that drops its last character
SubstrShort(s, pos, n) == SubSeq(s, pos + 1, pos + Min(n, Len(s) - pos) - 1)

Substr(s, pos, n) == SubSeq(s, pos + 1, pos + Min(n, Len(s) - pos))

\* ---------------------------------------------------------------- inputs
CoreChars == {NUL, 32, 49, 61, 64, 95, 120}

RECURSIVE StringsOfLen(_)
StringsOfLen(n) ==
    IF n = 0 THEN {<<>>}
    ELSE {Append(s, c) : s \in StringsOfLen(n - 1), c \in CoreChars}

CoreInputs == UNION {StringsOfLen(n) : n \in 0..MaxLen}

Scenario == <<108,101,116, 32, 120, 32, 61, 32, 52,50, 32, 43, 32,
              40, 49,53, 32, 45, 32, 51, 41>>

NamedInputs ==
    { Scenario,
      <<108,101,116>>,                    \* let
      <<108,101,116,120>>,                \* letx
      <<76,101,116>>,                     \* Let
      <<108,101,116,95>>,                 \* let_
      <<108,101,116, 32, 108,101,116,120, 32, 76,69,84>>,  \* let letx LET
      <<49,50,51>>,                       \* 123
      <<120,49>>,                         \* x1
      <<97,98, 49,50, 99>>,               \* ab12c
      <<61,43,45,42,47,40,41>>,           \* =+-*/()
      <<61,61>>,                          \* ==
      <<9,10,13,32, 49,50, 9,10>>,        \* whitespace of every kind
      <<9,10,13,32>> }

ByteInputs ==
    {<<c>> : c \in 0..127} \cup {<<49, c>> : c \in 0..127}
       \cup {<<120, c>> : c \in 0..127} \cup {<<32, c, 61>> : c \in 0..127}

Inputs == CoreInputs \cup NamedInputs \cup ByteInputs

\* ----------------------------------------------------------------- Lexer
\* the values readChar() assigns, from the value readPosition has on entry
ReadCharCh(rp) == IF rp >= Len(input) THEN NUL ELSE input[rp + 1]

\* a readChar that forgets readPosition++
ReadCharNextStuck(rp) == rp

ReadCharNext(rp) == (rp + 1) % Modulus

readChar ==
    /\ ch' = ReadCharCh(readPosition)
    /\ position' = readPosition
    /\ readPosition' = ReadCharNext(readPosition)

SeenEOF == \E i \in 1..Len(tokens) : tokens[i].type = "END_OF_FILE"

\* `return t;` of nextToken, with the bookkeeping of what the call consumed
Return(t) ==
    /\ pc' = "idle"
    /\ tokens' = Append(tokens, t)
    /\ consumed' = IF SeenEOF THEN consumed
                   ELSE consumed \o skipped \o t.literal
    /\ consumedCount' = IF SeenEOF THEN consumedCount
                        ELSE consumedCount + Len(skipped) + Len(t.literal)

Init ==
    /\ input \in Inputs
    /\ ch = IF 0 >= Len(input) THEN NUL ELSE input[1]
    /\ position = 0
    /\ readPosition = 1
    /\ pc = "idle"
    /\ startPos = 0
    /\ tok = Token("ILLEGAL", <<>>)
    /\ callPos = 0
    /\ skipped = <<>>
    /\ tokens = <<>>
    /\ consumed = <<>>
    /\ consumedCount = 0

nextToken ==
    /\ pc = "idle"
    /\ Len(tokens) < MaxCalls
    /\ pc' = "skipWhitespace"
    /\ callPos' = position
    /\ skipped' = <<>>
    /\ UNCHANGED <<input, position, readPosition, ch, startPos, tok,
                   tokens, consumed, consumedCount>>

skipWhitespace ==
    /\ pc = "skipWhitespace"
    /\ IsSpace(ch)
    /\ readChar
    /\ skipped' = Append(skipped, ch)
    /\ UNCHANGED <<input, pc, startPos, tok, callPos, tokens, consumed,
                   consumedCount>>

SwitchTok(c) ==
    IF c \in SymbolChars THEN Token(SymbolType(c), <<c>>)
    ELSE IF c = NUL THEN Token("END_OF_FILE", <<>>)
    ELSE Token("ILLEGAL", <<c>>)

SwitchPc(c) ==
    IF c \in SymbolChars \/ c = NUL THEN "readChar"
    ELSE IF IsDigit(c) THEN "readNumber"
    ELSE IF IdentStart(c) THEN "readIdentifier"
    ELSE "readChar"

\* a startPos taken from readPosition instead of position
StartPosFromReadPosition == readPosition

\* `size_t startPos = position;` on entry to readNumber / readIdentifier
StartPosInit == position

switch ==
    /\ pc = "skipWhitespace"
    /\ ~IsSpace(ch)
    /\ tok' = SwitchTok(ch)
    /\ pc' = SwitchPc(ch)
    /\ startPos' = IF SwitchPc(ch) \in {"readNumber", "readIdentifier"}
                   THEN StartPosInit ELSE startPos
    /\ UNCHANGED <<input, position, readPosition, ch, callPos, skipped,
                   tokens, consumed, consumedCount>>

readNumberLoop ==
    /\ pc = "readNumber"
    /\ IsDigit(ch)
    /\ readChar
    /\ UNCHANGED <<input, pc, startPos, tok, callPos, skipped, tokens,
                   consumed, consumedCount>>

SubstrLen == (position - startPos) % Modulus

readNumberReturn ==
    /\ pc = "readNumber"
    /\ ~IsDigit(ch)
    /\ IF SubstrThrows(input, startPos)
       THEN pc' = "threw" /\ UNCHANGED <<tokens, consumed, consumedCount>>
       ELSE Return(Token("NUMBER", Substr(input, startPos, SubstrLen)))
    /\ UNCHANGED <<input, position, readPosition, ch, startPos, tok,
                   callPos, skipped>>

readIdentifierLoop ==
    /\ pc = "readIdentifier"
    /\ IdentPart(ch)
    /\ readChar
    /\ UNCHANGED <<input, pc, startPos, tok, callPos, skipped, tokens,
                   consumed, consumedCount>>

IdentToken(ident) ==
    IF IsLet(ident) THEN Token("LET", ident) ELSE Token("IDENTIFIER", ident)

readIdentifierReturn ==
    /\ pc = "readIdentifier"
    /\ ~IdentPart(ch)
    /\ IF SubstrThrows(input, startPos)
       THEN pc' = "threw" /\ UNCHANGED <<tokens, consumed, consumedCount>>
       ELSE Return(IdentToken(Substr(input, startPos, SubstrLen)))
    /\ UNCHANGED <<input, position, readPosition, ch, startPos, tok,
                   callPos, skipped>>

\* `readChar(); return tok;` at the end of nextToken
trailingReadChar ==
    /\ pc = "readChar"
    /\ readChar
    /\ Return(tok)
    /\ UNCHANGED <<input, startPos, tok, callPos, skipped>>

Next ==
    \/ nextToken
    \/ skipWhitespace
    \/ switch
    \/ readNumberLoop
    \/ readNumberReturn
    \/ readIdentifierLoop
    \/ readIdentifierReturn
    \/ trailingReadChar

Spec == Init /\ [][Next]_vars

\* the statements of a call that has started; a started call keeps running
\* (one thread, no suspension point inside nextToken)
CallSteps ==
    \/ skipWhitespace
    \/ switch
    \/ readNumberLoop
    \/ readNumberReturn
    \/ readIdentifierLoop
    \/ readIdentifierReturn
    \/ trailingReadChar

FairSpec == Spec /\ WF_vars(CallSteps)

\* ======================================================== the properties
\* a nextToken() call has returned, and Last is the token it returned
Returned == pc = "idle" /\ Len(tokens) > 0

Last == tokens[Len(tokens)]

EOFToken == Token("END_OF_FILE", <<>>)

\* character classes as the specification words them
WsChar(c) == c = 32 \/ c = 9 \/ c = 10 \/ c = 13

DecimalDigit(c) == 48 <= c /\ c <= 57

AsciiLetter(c) == (65 <= c /\ c <= 90) \/ (97 <= c /\ c <= 122)

LetterOrUnderscore(c) == AsciiLetter(c) \/ c = 95

SymbolChar(c) == c \in {61, 43, 45, 42, 47, 40, 41}

OtherChar(c) ==
    ~WsChar(c) /\ ~SymbolChar(c) /\ ~DecimalDigit(c) /\ ~LetterOrUnderscore(c)

\* 0-based indexes of the non-whitespace characters at or after p
NonWsFrom(p) == {i \in p..(Len(input) - 1) : ~WsChar(input[i + 1])}

FirstNonWs(p) == CHOOSE i \in NonWsFrom(p) : \A j \in NonWsFrom(p) : i <= j

\* 0-based index just past the run of letters/underscores starting at s
RunEnd(s) ==
    CHOOSE j \in s..Len(input) :
        /\ \A k \in s..(j - 1) : LetterOrUnderscore(input[k + 1])
        /\ (j = Len(input) \/ ~LetterOrUnderscore(input[j + 1]))

\* the first n tokens returned are the first n of the sequence exp
StartsWith(exp) ==
    \A i \in 1..Min(Len(tokens), Len(exp)) : tokens[i] = exp[i]

\* C1: once a call has returned END_OF_FILE, every later call returns
\* END_OF_FILE with empty text.
C1_EofIsTerminal ==
    \A i, j \in 1..Len(tokens) :
        (i < j /\ tokens[i].type = "END_OF_FILE") => tokens[j] = EOFToken

\* C2: the whitespace skipped and the token texts of the calls up to the
\* first END_OF_FILE, concatenated in order, are the input.
C2_RoundTrip == (pc = "idle" /\ SeenEOF) => consumed = input

\* C3: the number of characters consumed by the calls up to and including
\* the first END_OF_FILE is the length of the input.
C3_ConsumedEqualsLength == (pc = "idle" /\ SeenEOF) => consumedCount = Len(input)

\* C4: a call that returns a token other than END_OF_FILE returns the source
\* substring that starts at the first non-whitespace character s at or after
\* the position the call started at, and leaves position at s plus the
\* length of that text.
C4_CursorPastLexeme ==
    (Returned /\ Last.type # "END_OF_FILE") =>
        /\ NonWsFrom(callPos) # {}
        /\ LET s == FirstNonWs(callPos)
               n == Len(Last.literal)
           IN  /\ s + n <= Len(input)
               /\ Last.literal = SubSeq(input, s + 1, s + n)
               /\ position = s + n

C4_Witness ==
    /\ Returned
    /\ Last.type = "NUMBER"
    /\ Len(Last.literal) = 2
    /\ Len(skipped) = 4
    /\ callPos = 0

\* C5: the step that returns END_OF_FILE leaves position and readPosition
\* as they were when the sentinel was observed.
C5_EofDoesNotAdvance ==
    [][(pc = "readChar" /\ tok.type = "END_OF_FILE")
         => (position' = position /\ readPosition' = readPosition)]_vars

\* C6: when the first non-whitespace character c at the cursor is neither a
\* symbol, a digit, a letter nor an underscore, the call returns ILLEGAL with
\* text c and advances the cursor by one character; "@" yields ILLEGAL("@")
\* and then END_OF_FILE.
C6_OtherCharIsIllegal ==
    /\ (Returned /\ NonWsFrom(callPos) # {}
            /\ OtherChar(input[FirstNonWs(callPos) + 1])) =>
          /\ Last = Token("ILLEGAL", <<input[FirstNonWs(callPos) + 1]>>)
          /\ position = FirstNonWs(callPos) + 1
    /\ input = <<64>> => StartsWith(<<Token("ILLEGAL", <<64>>), EOFToken>>)

\* C7: a NUMBER token's text is a non-empty run of decimal digits of the
\* source that no digit precedes and no digit follows; "123" yields one
\* NUMBER("123") and then END_OF_FILE.
C7_NumberMaximalMunch ==
    /\ (Returned /\ Last.type = "NUMBER") =>
          /\ NonWsFrom(callPos) # {}
          /\ LET s == FirstNonWs(callPos)
                 n == Len(Last.literal)
             IN  /\ n > 0
                 /\ \A k \in 1..n : DecimalDigit(Last.literal[k])
                 /\ Last.literal = SubSeq(input, s + 1, s + n)
                 /\ (s = 0 \/ ~DecimalDigit(input[s]))
                 /\ (s + n < Len(input) => ~DecimalDigit(input[s + n + 1]))
                 /\ ~DecimalDigit(ch)
    /\ input = <<49, 50, 51>> =>
          StartsWith(<<Token("NUMBER", <<49, 50, 51>>), EOFToken>>)

C7_Witness ==
    /\ input = <<49, 50, 51>>
    /\ tokens = <<Token("NUMBER", <<49, 50, 51>>), EOFToken>>

\* C8: a call returns LET exactly when the run of letters and underscores at
\* the cursor is "let"; every other such run is one IDENTIFIER whose text is
\* the whole run.
C8_KeywordExact ==
    Returned =>
        LET atIdent == /\ NonWsFrom(callPos) # {}
                       /\ LetterOrUnderscore(input[FirstNonWs(callPos) + 1])
        IN  /\ (Last.type \in {"LET", "IDENTIFIER"}) <=> atIdent
            /\ atIdent =>
                 LET s == FirstNonWs(callPos)
                     lex == SubSeq(input, s + 1, RunEnd(s))
                 IN  Last = IF lex = <<108, 101, 116>>
                            THEN Token("LET", lex)
                            ELSE Token("IDENTIFIER", lex)

C8_Witness ==
    /\ pc = "idle"
    /\ Len(tokens) = 3
    /\ tokens = << Token("LET", <<108, 101, 116>>),
                   Token("IDENTIFIER", <<108, 101, 116, 120>>),
                   Token("IDENTIFIER", <<76, 69, 84>>) >>

\* C9: the text of an IDENTIFIER or LET token is a non-empty run of ASCII
\* letters and underscores and the character after it is neither; "x1"
\* yields IDENTIFIER("x") and then NUMBER("1").
C9_IdentifierRun ==
    /\ (Returned /\ Last.type \in {"IDENTIFIER", "LET"}) =>
          /\ Len(Last.literal) > 0
          /\ \A k \in 1..Len(Last.literal) : LetterOrUnderscore(Last.literal[k])
          /\ ~LetterOrUnderscore(ch)
          /\ (position < Len(input) => ch = input[position + 1])
    /\ input = <<120, 49>> =>
          StartsWith(<<Token("IDENTIFIER", <<120>>), Token("NUMBER", <<49>>)>>)

C9_Witness ==
    /\ input = <<120, 49>>
    /\ pc = "idle"
    /\ tokens = <<Token("IDENTIFIER", <<120>>), Token("NUMBER", <<49>>)>>

ScenarioTokens ==
    << Token("LET", <<108, 101, 116>>), Token("IDENTIFIER", <<120>>),
       Token("EQUALS", <<61>>), Token("NUMBER", <<52, 50>>),
       Token("PLUS", <<43>>), Token("OPEN_PAREN", <<40>>),
       Token("NUMBER", <<49, 53>>), Token("MINUS", <<45>>),
       Token("NUMBER", <<51>>), Token("CLOSE_PAREN", <<41>>), EOFToken >>

\* C10: for the input "let x = 42 + (15 - 3)" the calls return LET, x, =,
\* 42, +, (, 15, -, 3, ) and END_OF_FILE, in this order.
C10_EndToEnd == input = Scenario => StartsWith(ScenarioTokens)

C10_Witness == input = Scenario /\ pc = "idle" /\ tokens = ScenarioTokens

\* C11: every call that has started returns; a call that returns a token
\* other than END_OF_FILE leaves position strictly greater than it found
\* it; and END_OF_FILE has been returned once length(input)+1 calls have
\* returned.
C11_TerminationAndProgress ==
    /\ [](pc # "threw")
    /\ []((Returned /\ Last.type # "END_OF_FILE") => position > callPos)
    /\ [](Len(tokens) >= Len(input) + 1 => SeenEOF)
    /\ ((pc # "idle") ~> (pc = "idle"))

C11_Witness ==
    /\ pc = "idle"
    /\ Len(input) = 3
    /\ Len(tokens) = 4
    /\ tokens[3].type # "END_OF_FILE"
    /\ tokens[4] = EOFToken

\* C12: when the first non-whitespace character at the cursor is one of
\* = + - * / ( ), the call returns the token of that symbol with text that
\* one character and advances the cursor by one, whatever follows; "=="
\* yields two EQUALS tokens.
C12_SingleCharSymbols ==
    /\ (Returned /\ NonWsFrom(callPos) # {}
            /\ SymbolChar(input[FirstNonWs(callPos) + 1])) =>
          LET s == FirstNonWs(callPos)
              c == input[s + 1]
              kind == CASE c = 61 -> "EQUALS"
                        [] c = 43 -> "PLUS"
                        [] c = 45 -> "MINUS"
                        [] c = 42 -> "STAR"
                        [] c = 47 -> "SLASH"
                        [] c = 40 -> "OPEN_PAREN"
                        [] c = 41 -> "CLOSE_PAREN"
          IN  /\ Last = Token(kind, <<c>>)
              /\ position = s + 1
    /\ input = <<61, 61>> =>
          StartsWith(<<Token("EQUALS", <<61>>), Token("EQUALS", <<61>>),
                       EOFToken>>)

C12_Witness ==
    /\ input = <<61, 43, 45, 42, 47, 40, 41>>
    /\ pc = "idle"
    /\ Len(tokens) = 7
    /\ tokens[5] = Token("SLASH", <<47>>)
    /\ tokens[7] = Token("CLOSE_PAREN", <<41>>)

WsOnly == \A i \in 1..Len(input) : WsChar(input[i])

\* C13: for the empty input and for an input of whitespace only, the first
\* call returns END_OF_FILE with empty text; the first call never fails.
C13_EmptyOrBlankInput ==
    /\ pc # "threw"
    /\ (WsOnly /\ Len(tokens) >= 1) => tokens[1] = EOFToken
    /\ (WsOnly /\ Len(tokens) = 0 /\ pc # "idle") =>
          pc \in {"skipWhitespace", "readChar"}

C13_Witness ==
    /\ input = <<9, 10, 13, 32>>
    /\ pc = "idle"
    /\ tokens = <<EOFToken>>
    /\ Len(skipped) = 4

\* C14: no returned token's text contains a space, tab, newline or
\* carriage return.
C14_NoWhitespaceInText ==
    \A i \in 1..Len(tokens) :
        \A k \in 1..Len(tokens[i].literal) : ~WsChar(tokens[i].literal[k])

C14_Witness ==
    /\ input = <<9, 10, 13, 32, 49, 50, 9, 10>>
    /\ pc = "idle"
    /\ tokens = <<Token("NUMBER", <<49, 50>>), EOFToken>>

\* C15: in every state after construction position < readPosition.
C15_PositionBelowReadPosition == position < readPosition

\* C16: position never decreases, however many calls are made.
C16_PositionNeverDecreases == [][position' >= position]_vars

\* C17: ch is input[position] whenever position is inside the input, and ch
\* is the sentinel 0 exactly when readPosition exceeds the input length.
C17_ChConsistent ==
    /\ position < Len(input) => ch = input[position + 1]
    /\ (ch = 0) <=> (readPosition > Len(input))

NumberClass == {"NUMBER"}

IdentClass == {"IDENTIFIER", "LET"}

\* C18: when two calls in a row both return NUMBER, or both return
\* IDENTIFIER or LET, the second call skipped at least one whitespace
\* character.
C18_SameClassNeedsWhitespace ==
    (Returned /\ Len(tokens) >= 2) =>
        LET prev == tokens[Len(tokens) - 1]
        IN  ((prev.type \in NumberClass /\ Last.type \in NumberClass)
              \/ (prev.type \in IdentClass /\ Last.type \in IdentClass))
            => (Len(skipped) >= 1 /\ FirstNonWs(callPos) > callPos)

C18_Witness ==
    /\ pc = "idle"
    /\ Len(tokens) = 2
    /\ tokens[1] = Token("LET", <<108, 101, 116>>)
    /\ tokens[2] = Token("IDENTIFIER", <<108, 101, 116, 120>>)
    /\ Len(skipped) = 1

\* the loop of readNumber / readIdentifier has ended and substr is called
AtSubstr ==
    \/ pc = "readNumber" /\ ~DecimalDigit(ch)
    \/ pc = "readIdentifier" /\ ~LetterOrUnderscore(ch)

\* C19: when readNumber or readIdentifier calls substr,
\* startPos < position <= length(input); substr never throws.
C19_SubstrInRange ==
    /\ pc # "threw"
    /\ AtSubstr => (startPos < position /\ position <= Len(input))

C19_Witness ==
    /\ AtSubstr
    /\ pc = "readIdentifier"
    /\ startPos = 4
    /\ position = 8
    /\ Len(input) = 12
====
